---- MODULE Spec2Model ----
(***************************************************************************)
(* Model of the unified ADC sampling core of PicoFFT (adc_sampling.c):     *)
(* the double buffer, the manual (polled) and DMA (driven) producers, the  *)
(* DMA completion interrupt and the main-context API, statement by         *)
(* statement where the interrupt can interleave.                           *)
(*                                                                         *)
(* Abstractions: a sample buffer is represented by the number of the fill  *)
(* that wrote it and the number of samples written; time stamps are left   *)
(* out and elapsed times are drawn from small sets; the float rate is an   *)
(* integer (truncating division).                                          *)
(***************************************************************************)
EXTENDS Integers, Sequences, FiniteSets, TLC

\* ---------------------------------------------------------------- constants
ADC_SAMPLING_FFT_SIZE == 1024
\* a uint32_t is kept as two 16-bit limbs
LIMB == 65536
ADC_DMA_CHANNEL_AUTO == -1

ADC_MODE_MANUAL == "MANUAL"
ADC_MODE_DMA == "DMA"
adc_sampling_mode_t == {ADC_MODE_MANUAL, ADC_MODE_DMA}

ADC_STATUS_IDLE == "IDLE"
ADC_STATUS_SAMPLING == "SAMPLING"
ADC_STATUS_DATA_READY == "DATA_READY"
ADC_STATUS_ERROR == "ERROR"
adc_sampling_status_t ==
    {ADC_STATUS_IDLE, ADC_STATUS_SAMPLING, ADC_STATUS_DATA_READY, ADC_STATUS_ERROR}

NULL == "NULL"
buffer_ping == "ping"
buffer_pong == "pong"
Buffers == {buffer_ping, buffer_pong}

\* ------------------------------------------------------------------- bounds
\* number of buffer fills (DMA completions or manual sample loops) explored
MaxCompletions == 3
\* elapsed times (us) a manual sample loop may measure
SampleTimes == {0, 8000, 8192}
\* elapsed times (us) adc_sampling_stop may measure since start
TotalTimes == {0, 16000}
\* elapsed times (us) one iteration of the run loop may measure
FrameTimes == {1000, 33332, 33333, 40000}
\* number of failed iterations of the run loop explored
MaxErrors == 2

\* ---------------------------------------------------------------- variables
VARIABLES
    \* g_unified_analyzer
    mode, status, current_buffer, ready_buffer, buffer_selector,
    data_ready, sampling_active, sample_count, buffer_overruns,
    actual_sample_rate, dma_channel, fft_cfg, fft_ready, magnitude, buf,
    \* DMA / ADC hardware
    dma_busy, dma_dest, adc_running, ints0, dma_fault,
    \* environment: resources available at init
    dma_channel_free, heap_ok,
    \* main context: position, local of process_fft, last return value
    pc, pf_buffer, ret,
    \* history: current/last API call, acquisition state at its entry,
    \* whether hardware or the handler acted since, number of fills so far
    call, snap, hw_in_call, completions,
    \* fft_realtime_unified.c: position of the coordinator, its counters,
    \* the spectrum last handed to the display, the measured time and the
    \* sleep of the last pacing step, and the counters at the iteration's top
    run_pc, frame_count, error_count, published, frame_time_us,
    sleep_time_us, iter,
    \* window / calibration math: the last two power-level conversions, the
    \* last window selector looked up, the last frame taken through
    \* adc_sampling_process_fft, update_display and the display's clamp
    conv, prev_conv, win, frame,
    \* lcd_partial_update.c: g_partial_update.enabled, the screen buffer, the
    \* regions array (region_count is its length); history: the pixels
    \* changed since the last flush, those of them the flush just made did
    \* not send, and the last call made
    lcd_enabled, screen_buffer, regions, changed, lost, lcd_op

cfgVars == <<mode, dma_channel, fft_cfg>>
ptrVars == <<current_buffer, ready_buffer, buffer_selector>>
cntVars == <<sample_count, buffer_overruns, actual_sample_rate>>
hwVars  == <<dma_busy, dma_dest, adc_running, ints0, dma_fault>>
envVars == <<dma_channel_free, heap_ok>>
histVars == <<call, snap, hw_in_call>>
runVars == <<run_pc, frame_count, error_count, published, frame_time_us,
             sleep_time_us, iter>>
mathVars == <<conv, prev_conv, win, frame>>
\* every variable of the acquisition module and of its hardware
acqVars == <<cfgVars, ptrVars, cntVars, hwVars, envVars, histVars, status,
             data_ready, sampling_active, fft_ready, magnitude, buf, pc,
             pf_buffer, ret, completions>>

lcdVars == <<lcd_enabled, screen_buffer, regions, changed, lost, lcd_op>>

vars == <<mode, status, current_buffer, ready_buffer, buffer_selector,
          data_ready, sampling_active, sample_count, buffer_overruns,
          actual_sample_rate, dma_channel, fft_cfg, fft_ready, magnitude, buf,
          dma_busy, dma_dest, adc_running, ints0, dma_fault,
          dma_channel_free, heap_ok, pc, pf_buffer, ret,
          call, snap, hw_in_call, completions,
          run_pc, frame_count, error_count, published, frame_time_us,
          sleep_time_us, iter, conv, prev_conv, win, frame,
          lcd_enabled, screen_buffer, regions, changed, lost, lcd_op>>

\* ------------------------------------------------------------------ helpers
U32(hi, lo) == [hi |-> hi, lo |-> lo]

U32Zero == U32(0, 0)

\* x + n modulo 2^32, for 0 <= n < 2^16
U32Add(x, n) ==
    LET s == x.lo + n
    IN  U32((x.hi + (s \div LIMB)) % LIMB, s % LIMB)

\* the number a uint32_t stands for (below 2^31)
U32Val(x) == x.hi * LIMB + x.lo

U32Set == [hi : 0..(LIMB - 1), lo : 0..(LIMB - 1)]

BoolStr(b) == IF b THEN "true" ELSE "false"

Other(b) == IF b = buffer_ping THEN buffer_pong ELSE buffer_ping

EmptyBuffer == [frame |-> 0, n |-> 0]

\* the acquisition state an API call can observe or change
AcqState ==
    [status |-> status, sampling_active |-> sampling_active,
     data_ready |-> data_ready, fft_ready |-> fft_ready,
     current_buffer |-> current_buffer, ready_buffer |-> ready_buffer,
     buffer_selector |-> buffer_selector,
     sample_count |-> sample_count, buffer_overruns |-> buffer_overruns,
     actual_sample_rate |-> actual_sample_rate,
     dma_busy |-> dma_busy, dma_dest |-> dma_dest,
     adc_running |-> adc_running, completions |-> completions]

Enter(name) ==
    /\ pc = "idle"
    /\ call' = name
    /\ snap' = AcqState
    /\ hw_in_call' = FALSE

Return(v) ==
    /\ pc' = "idle"
    /\ ret' = v

Goto(l) ==
    /\ pc' = l
    /\ ret' = "none"

\* ------------------------------------------------------------------ float
\* A C float is carried as a decimal floating-point number m * 10^e with a
\* mantissa of four digits (m = 0, or 1000 <= m <= 9999); results are
\* truncated to the mantissa, as a float operation rounds to its own.
Flt(m, e) == [m |-> m, e |-> e]

FltZero == Flt(0, 0)

RECURSIVE FltNorm(_, _)
FltNorm(m, e) ==
    IF m = 0 THEN FltZero
    ELSE IF m >= 10000 THEN FltNorm(m \div 10, e + 1)
    ELSE IF m < 1000 THEN FltNorm(m * 10, e - 1)
    ELSE Flt(m, e)

FltOne == FltNorm(1, 0)

\* a * b and a / b (b # 0) of non-negative floats
FltMul(a, b) == FltNorm(a.m * b.m, a.e + b.e)

FltDiv(a, b) == FltNorm((a.m * 10000) \div b.m, a.e - b.e - 4)

\* a > b of non-negative floats
FltGt(a, b) ==
    /\ a.m > 0
    /\ \/ b.m = 0
       \/ a.e > b.e
       \/ a.e = b.e /\ a.m > b.m

\* |a - 1| is at most one unit of the mantissa
FltNearOne(a) ==
    \/ a.e = -4 /\ a.m >= 9990
    \/ a.e = -3 /\ a.m <= 1001

\* largest r in lo..hi with r * r <= n
RECURSIVE IsqrtIter(_, _, _)
IsqrtIter(n, lo, hi) ==
    IF lo >= hi THEN lo
    ELSE LET mid == (lo + hi + 1) \div 2 IN
         IF mid * mid <= n THEN IsqrtIter(n, mid, hi)
         ELSE IsqrtIter(n, lo, mid - 1)

\* sqrtf of a non-negative integer, kept to the mantissa
sqrtf(n) ==
    IF n < 200000 THEN FltNorm(IsqrtIter(n * 10000, 0, 46340), -2)
    ELSE IF n < 20000000 THEN FltNorm(IsqrtIter(n * 100, 0, 46340), -1)
    ELSE FltNorm(IsqrtIter(n, 0, 46340), 0)

\* binary digits of log10(y / 1000) for 1000 <= y < 10000, by repeated
\* squaring: k digits are left, acc holds the digits found
RECURSIVE Log10Bits(_, _, _)
Log10Bits(y, k, acc) ==
    IF k = 0 THEN acc
    ELSE LET sq == (y * y) \div 1000 IN
         IF sq >= 10000 THEN Log10Bits(sq \div 10, k - 1, 2 * acc + 1)
         ELSE Log10Bits(sq, k - 1, 2 * acc)

\* 20.0f * log10f(a) for a > 0 in thousandths of a dB; log10f is taken in
\* units of 1/1024
Db20(a) == (20000 * (Log10Bits(a.m, 10, 0) + 1024 * (a.e + 3))) \div 1024

\* ---------------------------------------------------------------- initial
\* g_unified_analyzer = {0}; nothing armed, no interrupt pending
AcqInit ==
    /\ mode = ADC_MODE_MANUAL
    /\ status = ADC_STATUS_IDLE
    /\ current_buffer = NULL
    /\ ready_buffer = NULL
    /\ buffer_selector = FALSE
    /\ data_ready = FALSE
    /\ sampling_active = FALSE
    /\ sample_count = U32Zero
    /\ buffer_overruns = U32Zero
    /\ actual_sample_rate = 0
    /\ dma_channel = 0
    /\ fft_cfg = FALSE
    /\ fft_ready = FALSE
    /\ magnitude = 0
    /\ buf = [b \in Buffers |-> EmptyBuffer]
    /\ dma_busy = FALSE
    /\ dma_dest = NULL
    /\ adc_running = FALSE
    /\ ints0 = FALSE
    /\ dma_fault = FALSE
    /\ dma_channel_free \in BOOLEAN
    /\ heap_ok \in BOOLEAN
    /\ pc = "uninit"
    /\ pf_buffer = NULL
    /\ ret = "none"
    /\ call = "none"
    /\ snap = [status |-> ADC_STATUS_IDLE, sampling_active |-> FALSE,
               data_ready |-> FALSE, fft_ready |-> FALSE,
               current_buffer |-> NULL, ready_buffer |-> NULL,
               buffer_selector |-> FALSE,
               sample_count |-> U32Zero, buffer_overruns |-> U32Zero,
               actual_sample_rate |-> 0,
               dma_busy |-> FALSE, dma_dest |-> NULL,
               adc_running |-> FALSE, completions |-> 0]
    /\ hw_in_call = FALSE
    /\ completions = 0

\* static frame_count = 0, error_count = 0; nothing published yet
RunInit(start_pc) ==
    /\ run_pc = start_pc
    /\ frame_count = U32Zero
    /\ error_count = U32Zero
    /\ published = 0
    /\ frame_time_us = 0
    /\ sleep_time_us = 0
    /\ iter = [frame_count |-> U32Zero, error_count |-> U32Zero,
               published |-> 0, ready |-> "none", processed |-> "none",
               released |-> FALSE]

\* no conversion made, no window looked up, no frame processed yet
NoConv == [path |-> "none", v |-> FltZero, above |-> FALSE, log |-> FALSE,
           finite |-> TRUE, db |-> 0]

NoWin == [sel |-> -1, gain |-> FltOne, correction |-> FltOne,
          applied |-> "none", corrected_for |-> "none",
          cosine_sum |-> FALSE, constant_term |-> FltOne]

NoFrame == [valid |-> FALSE, samples |-> <<>>, bins |-> <<>>,
            corrected |-> <<>>, shown |-> <<>>]

MathInit ==
    /\ conv = NoConv
    /\ prev_conv = NoConv
    /\ win = NoWin
    /\ frame = NoFrame

\* ---------------------------------------------------- lcd_partial_update.c
\* the panel explored: LCD_X_MAXPIXEL x LCD_Y_MAXPIXEL pixels
LCD_X_MAXPIXEL == 5
LCD_Y_MAXPIXEL == 3

\* entries of the regions array explored (MAX_UPDATE_REGIONS, 8 in the header)
MaxRegions == 2

\* pixels the drawing calls address: four that neither touch nor overlap one
\* another, one between two of them, and one beyond the right edge
LcdPoints ==
    {<<0, 0>>, <<2, 0>>, <<4, 0>>, <<0, 2>>, <<1, 0>>, <<5, 0>>}

\* g_partial_update = {.region_count = 0, .enabled = false}, no screen buffer
\* allocated, nothing drawn
LcdInit ==
    /\ lcd_enabled = FALSE
    /\ screen_buffer =
           [p \in (0..(LCD_X_MAXPIXEL - 1)) \X (0..(LCD_Y_MAXPIXEL - 1)) |-> 0]
    /\ regions = <<>>
    /\ changed = {}
    /\ lost = {}
    /\ lcd_op = "none"

\* partial_update_init: both buffers allocated, the screen buffer zeroed,
\* region_count = 0, enabled = true; on a failed allocation cleanup leaves
\* the module disabled
partial_update_init ==
    /\ ~lcd_enabled
    /\ \E allocated \in BOOLEAN :
        /\ lcd_enabled' = allocated
        /\ screen_buffer' = [p \in DOMAIN screen_buffer |-> 0]
        /\ regions' = <<>>
    /\ lcd_op' = "init"
    /\ UNCHANGED <<changed, lost, acqVars, runVars, mathVars>>

\* partial_update_mark_dirty: the regions array after the call (region_count
\* is its length). POINT is unsigned, so the clamp at zero never acts.
partial_update_mark_dirty(en, rs, x1, y1, x2, y2) ==
    IF ~en \/ Len(rs) >= MaxRegions THEN rs
    ELSE
        LET cx2 == IF x2 >= LCD_X_MAXPIXEL THEN LCD_X_MAXPIXEL - 1 ELSE x2
            cy2 == IF y2 >= LCD_Y_MAXPIXEL THEN LCD_Y_MAXPIXEL - 1 ELSE y2
            \* regions that overlap or are adjacent
            hit == {i \in 1..Len(rs) :
                        /\ x1 <= rs[i].x2 + 1 /\ cx2 >= rs[i].x1 - 1
                        /\ y1 <= rs[i].y2 + 1 /\ cy2 >= rs[i].y1 - 1}
        IN  IF x1 > cx2 \/ y1 > cy2 THEN rs
            ELSE IF hit # {}
            THEN LET i == CHOOSE i \in hit : \A j \in hit : i <= j
                 IN [rs EXCEPT ![i] =
                        [x1 |-> IF x1 < rs[i].x1 THEN x1 ELSE rs[i].x1,
                         y1 |-> IF y1 < rs[i].y1 THEN y1 ELSE rs[i].y1,
                         x2 |-> IF cx2 > rs[i].x2 THEN cx2 ELSE rs[i].x2,
                         y2 |-> IF cy2 > rs[i].y2 THEN cy2 ELSE rs[i].y2,
                         dirty |-> TRUE]]
            ELSE Append(rs, [x1 |-> x1, y1 |-> y1, x2 |-> cx2, y2 |-> cy2,
                             dirty |-> TRUE])

\* partial_update_set_pixel(x, y, color): a pixel that changes is stored in
\* the screen buffer and marked dirty
partial_update_set_pixel ==
    /\ \E p \in LcdPoints, color \in {0, 1} :
        IF /\ lcd_enabled
           /\ p[1] < LCD_X_MAXPIXEL /\ p[2] < LCD_Y_MAXPIXEL
           /\ screen_buffer[p] # color
        THEN /\ screen_buffer' = [screen_buffer EXCEPT ![p] = color]
             /\ regions' = partial_update_mark_dirty(lcd_enabled, regions,
                                                     p[1], p[2], p[1], p[2])
             /\ changed' = changed \cup {p}
        ELSE UNCHANGED <<screen_buffer, regions, changed>>
    /\ lost' = {}
    /\ lcd_op' = "set_pixel"
    /\ UNCHANGED <<lcd_enabled, acqVars, runVars, mathVars>>

\* partial_update_flush: every dirty region is sent to the panel from the
\* screen buffer, then partial_update_clear_regions; lost keeps the pixels
\* changed since the previous flush that no region sent
partial_update_flush ==
    /\ IF lcd_enabled
       THEN /\ lost' = {p \in changed :
                          \A i \in 1..Len(regions) :
                              ~(/\ regions[i].dirty
                                /\ p[1] >= regions[i].x1
                                /\ p[1] <= regions[i].x2
                                /\ p[2] >= regions[i].y1
                                /\ p[2] <= regions[i].y2)}
            /\ regions' = <<>>
            /\ changed' = {}
       ELSE UNCHANGED <<lost, regions, changed>>
    /\ lcd_op' = "flush"
    /\ UNCHANGED <<lcd_enabled, screen_buffer, acqVars, runVars, mathVars>>

\* the drawing calls of the display, in any order
NextLcd ==
    \/ partial_update_init
    \/ partial_update_set_pixel
    \/ partial_update_flush

InitLcd ==
    /\ AcqInit
    /\ dma_channel_free
    /\ heap_ok
    /\ RunInit("off")
    /\ MathInit
    /\ LcdInit

SpecLcd == InitLcd /\ [][NextLcd]_vars

\* the acquisition module driven by free API calls: the coordinator is
\* not running
Init ==
    /\ AcqInit
    /\ RunInit("off")
    /\ MathInit
    /\ LcdInit

\* ------------------------------------------------------- adc_sampling_init
\* dma_claim_unused_channel(required): a free channel number, or, when none
\* is free, a panic if required and -1 otherwise
dma_claim_unused_channel(required, free) ==
    IF free THEN [panic |-> FALSE, channel |-> 0]
    ELSE IF required THEN [panic |-> TRUE, channel |-> -1]
    ELSE [panic |-> FALSE, channel |-> -1]

\* _adc_dma_init: claims the channel with required = true, then tests < 0
_adc_dma_init(free) ==
    LET c == IF ADC_DMA_CHANNEL_AUTO = -1
             THEN dma_claim_unused_channel(TRUE, free)
             ELSE [panic |-> FALSE, channel |-> ADC_DMA_CHANNEL_AUTO]
    IN  [panic |-> c.panic, channel |-> c.channel,
         ok |-> (~c.panic /\ ~(c.channel < 0))]

_adc_manual_init == [panic |-> FALSE, channel |-> 0, ok |-> TRUE]

adc_sampling_init ==
    /\ pc = "uninit"
    /\ \E m \in adc_sampling_mode_t :
        LET r == IF m = ADC_MODE_DMA THEN _adc_dma_init(dma_channel_free)
                 ELSE _adc_manual_init
        IN
        \* memset, mode, status, buffer pointers
        /\ mode' = m
        /\ status' = ADC_STATUS_IDLE
        /\ current_buffer' = buffer_ping
        /\ ready_buffer' = NULL
        /\ buffer_selector' = FALSE
        /\ data_ready' = FALSE
        /\ sampling_active' = FALSE
        /\ sample_count' = U32Zero
        /\ buffer_overruns' = U32Zero
        /\ actual_sample_rate' = 0
        /\ fft_ready' = FALSE
        /\ magnitude' = 0
        /\ buf' = [b \in Buffers |-> EmptyBuffer]
        /\ fft_cfg' = heap_ok
        /\ IF ~heap_ok
           THEN /\ dma_channel' = 0
                /\ pc' = "init_failed"
                /\ ret' = "false"
           ELSE /\ dma_channel' = r.channel
                /\ pc' = IF r.panic THEN "panic"
                         ELSE IF r.ok THEN "idle" ELSE "init_failed"
                /\ ret' = IF r.panic THEN "none" ELSE BoolStr(r.ok)
    /\ call' = "init"
    /\ snap' = snap
    /\ hw_in_call' = FALSE
    /\ UNCHANGED <<hwVars, envVars, pf_buffer, completions>>

\* ------------------------------------------ adc_sampling_reset_counters
\* the three stores of adc_sampling_reset_counters, one per step
ResetSampleCount(from, to) ==
    /\ pc = from
    /\ sample_count' = U32Zero
    /\ Goto(to)
    /\ UNCHANGED <<cfgVars, ptrVars, hwVars, envVars, histVars, status,
                   data_ready, sampling_active, buffer_overruns,
                   actual_sample_rate, fft_ready, magnitude, buf, pf_buffer,
                   completions>>

ResetOverruns(from, to) ==
    /\ pc = from
    /\ buffer_overruns' = U32Zero
    /\ Goto(to)
    /\ UNCHANGED <<cfgVars, ptrVars, hwVars, envVars, histVars, status,
                   data_ready, sampling_active, sample_count,
                   actual_sample_rate, fft_ready, magnitude, buf, pf_buffer,
                   completions>>

ResetRate(from, to, result) ==
    /\ pc = from
    /\ actual_sample_rate' = 0
    /\ pc' = to
    /\ ret' = result
    /\ UNCHANGED <<cfgVars, ptrVars, hwVars, envVars, histVars, status,
                   data_ready, sampling_active, sample_count,
                   buffer_overruns, fft_ready, magnitude, buf, pf_buffer,
                   completions>>

Call_reset_counters ==
    /\ Enter("reset_counters")
    /\ Goto("rc_count")
    /\ UNCHANGED <<cfgVars, ptrVars, cntVars, hwVars, envVars, status,
                   data_ready, sampling_active, fft_ready, magnitude, buf,
                   pf_buffer, completions>>

adc_sampling_reset_counters ==
    \/ Call_reset_counters
    \/ ResetSampleCount("rc_count", "rc_overruns")
    \/ ResetOverruns("rc_overruns", "rc_rate")
    \/ ResetRate("rc_rate", "idle", "void")

\* ------------------------------------------------------ adc_sampling_start
\* variant: the early return tests the wrong status
Mutant_start_wrong_status(st) == st = ADC_STATUS_DATA_READY

\* the early return of adc_sampling_start
StartIsRedundant(st) == st = ADC_STATUS_SAMPLING

Call_start ==
    /\ Enter("start")
    /\ IF StartIsRedundant(status)
       THEN Return("true")
       ELSE Goto("start_rc_count")
    /\ UNCHANGED <<cfgVars, ptrVars, cntVars, hwVars, envVars, status,
                   data_ready, sampling_active, fft_ready, magnitude, buf,
                   pf_buffer, completions>>

\* after the counter reset: _adc_dma_start in DMA mode only
StartMode ==
    /\ pc = "start_mode"
    /\ Goto(IF mode = ADC_MODE_DMA THEN "dma_configure" ELSE "start_status")
    /\ UNCHANGED <<cfgVars, ptrVars, cntVars, hwVars, envVars, histVars,
                   status, data_ready, sampling_active, fft_ready, magnitude,
                   buf, pf_buffer, completions>>

\* _adc_dma_start: dma_channel_configure(.., current_buffer, .., false)
DmaStartConfigure ==
    /\ pc = "dma_configure"
    /\ dma_dest' = current_buffer
    /\ Goto("dma_start")
    /\ UNCHANGED <<cfgVars, ptrVars, cntVars, envVars, histVars, status,
                   data_ready, sampling_active, fft_ready, magnitude, buf,
                   pf_buffer, completions, dma_busy, adc_running, ints0,
                   dma_fault>>

\* _adc_dma_start: dma_channel_start
DmaStartChannel ==
    /\ pc = "dma_start"
    /\ dma_busy' = TRUE
    /\ dma_fault' = FALSE
    /\ Goto("dma_adc_run")
    /\ UNCHANGED <<cfgVars, ptrVars, cntVars, envVars, histVars, status,
                   data_ready, sampling_active, fft_ready, magnitude, buf,
                   pf_buffer, completions, dma_dest, adc_running, ints0>>

\* _adc_dma_start: adc_run(true)
DmaStartAdcRun ==
    /\ pc = "dma_adc_run"
    /\ adc_running' = TRUE
    /\ Goto("start_status")
    /\ UNCHANGED <<cfgVars, ptrVars, cntVars, envVars, histVars, status,
                   data_ready, sampling_active, fft_ready, magnitude, buf,
                   pf_buffer, completions, dma_busy, dma_dest, ints0,
                   dma_fault>>

_adc_dma_start ==
    \/ DmaStartConfigure
    \/ DmaStartChannel
    \/ DmaStartAdcRun

StartSetStatus ==
    /\ pc = "start_status"
    /\ status' = ADC_STATUS_SAMPLING
    /\ Goto("start_active")
    /\ UNCHANGED <<cfgVars, ptrVars, cntVars, hwVars, envVars, histVars,
                   data_ready, sampling_active, fft_ready, magnitude, buf,
                   pf_buffer, completions>>

StartSetActive ==
    /\ pc = "start_active"
    /\ sampling_active' = TRUE
    /\ Return("true")
    /\ UNCHANGED <<cfgVars, ptrVars, cntVars, hwVars, envVars, histVars,
                   status, data_ready, fft_ready, magnitude, buf, pf_buffer,
                   completions>>

adc_sampling_start ==
    \/ Call_start
    \/ ResetSampleCount("start_rc_count", "start_rc_overruns")
    \/ ResetOverruns("start_rc_overruns", "start_rc_rate")
    \/ ResetRate("start_rc_rate", "start_mode", "none")
    \/ StartMode
    \/ _adc_dma_start
    \/ StartSetStatus
    \/ StartSetActive

\* ------------------------------------------------------- adc_sampling_stop
\* the early return of adc_sampling_stop
StopIsRedundant(st) == st = ADC_STATUS_IDLE

Call_stop ==
    /\ Enter("stop")
    /\ IF StopIsRedundant(status)
       THEN Return("true")
       ELSE Goto(IF mode = ADC_MODE_DMA THEN "stop_adc_run" ELSE "stop_status")
    /\ UNCHANGED <<cfgVars, ptrVars, cntVars, hwVars, envVars, status,
                   data_ready, sampling_active, fft_ready, magnitude, buf,
                   pf_buffer, completions>>

\* _adc_dma_stop: adc_run(false)
DmaStopAdcRun ==
    /\ pc = "stop_adc_run"
    /\ adc_running' = FALSE
    /\ Goto("stop_abort")
    /\ UNCHANGED <<cfgVars, ptrVars, cntVars, envVars, histVars, status,
                   data_ready, sampling_active, fft_ready, magnitude, buf,
                   pf_buffer, completions, dma_busy, dma_dest, ints0,
                   dma_fault>>

\* _adc_dma_stop: dma_channel_abort ends the transfer in flight; the channel
\* interrupt stays enabled and a latched completion interrupt stays pending
DmaStopAbort ==
    /\ pc = "stop_abort"
    /\ dma_busy' = FALSE
    /\ Goto("stop_status")
    /\ UNCHANGED <<cfgVars, ptrVars, cntVars, envVars, histVars, status,
                   data_ready, sampling_active, fft_ready, magnitude, buf,
                   pf_buffer, completions, dma_dest, adc_running, ints0,
                   dma_fault>>

_adc_dma_stop ==
    \/ DmaStopAdcRun
    \/ DmaStopAbort

StopSetStatus ==
    /\ pc = "stop_status"
    /\ status' = ADC_STATUS_IDLE
    /\ Goto("stop_active")
    /\ UNCHANGED <<cfgVars, ptrVars, cntVars, hwVars, envVars, histVars,
                   data_ready, sampling_active, fft_ready, magnitude, buf,
                   pf_buffer, completions>>

StopClearActive ==
    /\ pc = "stop_active"
    /\ sampling_active' = FALSE
    /\ Goto("stop_ready")
    /\ UNCHANGED <<cfgVars, ptrVars, cntVars, hwVars, envVars, histVars,
                   status, data_ready, fft_ready, magnitude, buf, pf_buffer,
                   completions>>

StopClearReady ==
    /\ pc = "stop_ready"
    /\ data_ready' = FALSE
    /\ Goto("stop_rate")
    /\ UNCHANGED <<cfgVars, ptrVars, cntVars, hwVars, envVars, histVars,
                   status, sampling_active, fft_ready, magnitude, buf,
                   pf_buffer, completions>>

\* final rate: sample_count * 1000000 / total_time when total_time > 0
\* (total_time in whole milliseconds, to stay within the checker's integers)
FinalRate(count, total_time, old) ==
    IF total_time > 0
    THEN (U32Val(count) * 1000) \div (total_time \div 1000)
    ELSE old

StopFinalRate ==
    /\ pc = "stop_rate"
    /\ \E total_time \in TotalTimes :
        actual_sample_rate' =
            FinalRate(sample_count, total_time, actual_sample_rate)
    /\ Return("true")
    /\ UNCHANGED <<cfgVars, ptrVars, hwVars, envVars, histVars, status,
                   data_ready, sampling_active, sample_count,
                   buffer_overruns, fft_ready, magnitude, buf, pf_buffer,
                   completions>>

adc_sampling_stop ==
    \/ Call_stop
    \/ _adc_dma_stop
    \/ StopSetStatus
    \/ StopClearActive
    \/ StopClearReady
    \/ StopFinalRate

\* ------------------------------------------------------- _adc_swap_buffers
\* variant: the swap always selects the pong buffer
Mutant_swap_always_pong(cur, sel) ==
    [ready_buffer |-> cur,
     buffer_selector |-> TRUE,
     current_buffer |-> buffer_pong]

\* variant: the selector is not flipped
Mutant_swap_no_flip(cur, sel) ==
    [ready_buffer |-> cur,
     buffer_selector |-> sel,
     current_buffer |-> IF sel THEN buffer_pong ELSE buffer_ping]

\* current buffer becomes the ready buffer, the selector flips and selects
\* the new current buffer
_adc_swap_buffers(cur, sel) ==
    [ready_buffer |-> cur,
     buffer_selector |-> ~sel,
     current_buffer |-> IF ~sel THEN buffer_pong ELSE buffer_ping]

\* ---------------------------------------------------- DMA mode: hardware
\* the armed transfer has moved its ADC_SAMPLING_FFT_SIZE samples: the
\* channel goes idle and latches its completion interrupt
DmaTransferComplete ==
    /\ dma_busy
    /\ adc_running
    /\ dma_dest \in Buffers
    /\ completions < MaxCompletions
    /\ buf' = [buf EXCEPT ![dma_dest] =
                  [frame |-> completions + 1, n |-> ADC_SAMPLING_FFT_SIZE]]
    /\ completions' = completions + 1
    /\ dma_busy' = FALSE
    /\ ints0' = TRUE
    /\ hw_in_call' = TRUE
    /\ UNCHANGED <<cfgVars, ptrVars, cntVars, envVars, status, data_ready,
                   sampling_active, fft_ready, magnitude, pf_buffer, pc, ret,
                   call, snap, dma_dest, adc_running, dma_fault>>

\* the armed transfer faults: the channel halts without completing
DmaTransferFault ==
    /\ dma_busy
    /\ adc_running
    /\ ~dma_fault
    /\ dma_busy' = FALSE
    /\ dma_fault' = TRUE
    /\ hw_in_call' = TRUE
    /\ UNCHANGED <<cfgVars, ptrVars, cntVars, envVars, status, data_ready,
                   sampling_active, fft_ready, magnitude, buf, pf_buffer, pc,
                   ret, call, snap, dma_dest, adc_running, ints0,
                   completions>>

\* variant: no completion is counted as an overrun
Mutant_overrun_never(dr, n) == n

\* variant: every completion is counted as an overrun
Mutant_overrun_always(dr, n) == U32Add(n, 1)

\* overrun check of the handler
OverrunUpdate(dr, n) == IF dr THEN U32Add(n, 1) ELSE n

\* variant: the handler counts the buffer as one sample less
Mutant_handler_counts_short ==
    /\ ints0
    /\ ints0' = FALSE
    /\ sample_count' = U32Add(sample_count, ADC_SAMPLING_FFT_SIZE - 1)
    /\ buffer_overruns' = OverrunUpdate(data_ready, buffer_overruns)
    /\ LET s == _adc_swap_buffers(current_buffer, buffer_selector) IN
        /\ ready_buffer' = s.ready_buffer
        /\ buffer_selector' = s.buffer_selector
        /\ current_buffer' = s.current_buffer
        /\ dma_dest' = s.current_buffer
        /\ dma_busy' = TRUE
        /\ dma_fault' = FALSE
    /\ data_ready' = TRUE
    /\ hw_in_call' = TRUE
    /\ UNCHANGED <<cfgVars, envVars, status, sampling_active,
                   actual_sample_rate, fft_ready, magnitude, buf, pf_buffer,
                   pc, ret, call, snap, adc_running, completions>>

\* variant: the next transfer is armed into the buffer just filled
Mutant_handler_arms_filled ==
    /\ ints0
    /\ ints0' = FALSE
    /\ sample_count' = U32Add(sample_count, ADC_SAMPLING_FFT_SIZE)
    /\ buffer_overruns' = OverrunUpdate(data_ready, buffer_overruns)
    /\ LET s == _adc_swap_buffers(current_buffer, buffer_selector) IN
        /\ ready_buffer' = s.ready_buffer
        /\ buffer_selector' = s.buffer_selector
        /\ current_buffer' = s.current_buffer
        /\ dma_dest' = s.ready_buffer
        /\ dma_busy' = TRUE
        /\ dma_fault' = FALSE
    /\ data_ready' = TRUE
    /\ hw_in_call' = TRUE
    /\ UNCHANGED <<cfgVars, envVars, status, sampling_active,
                   actual_sample_rate, fft_ready, magnitude, buf, pf_buffer,
                   pc, ret, call, snap, adc_running, completions>>

\* the completion handler runs to its end once entered (the main context
\* cannot preempt it); it is entered while the interrupt is latched
_adc_dma_interrupt_handler ==
    /\ ints0
    /\ ints0' = FALSE
    /\ sample_count' = U32Add(sample_count, ADC_SAMPLING_FFT_SIZE)
    /\ buffer_overruns' = OverrunUpdate(data_ready, buffer_overruns)
    /\ LET s == _adc_swap_buffers(current_buffer, buffer_selector) IN
        /\ ready_buffer' = s.ready_buffer
        /\ buffer_selector' = s.buffer_selector
        /\ current_buffer' = s.current_buffer
        \* dma_channel_configure(.., current_buffer, .., true)
        /\ dma_dest' = s.current_buffer
        /\ dma_busy' = TRUE
        /\ dma_fault' = FALSE
    /\ data_ready' = TRUE
    /\ hw_in_call' = TRUE
    /\ UNCHANGED <<cfgVars, envVars, status, sampling_active,
                   actual_sample_rate, fft_ready, magnitude, buf, pf_buffer,
                   pc, ret, call, snap, adc_running, completions>>

\* --------------------------------------------------- adc_sampling_is_ready
\* variant: samples on every poll of a manual acquisition
Mutant_sample_every_poll(m, active, dr) ==
    m = ADC_MODE_MANUAL

\* variant: samples although data is pending
Mutant_sample_when_pending(m, active, dr) ==
    m = ADC_MODE_MANUAL /\ active

\* variant: samples in either mode
Mutant_sample_any_mode(m, active, dr) ==
    active /\ ~dr

\* the condition under which adc_sampling_is_ready samples a buffer itself
ManualShouldSample(m, active, dr) ==
    m = ADC_MODE_MANUAL /\ active /\ ~dr

Call_is_ready ==
    /\ Enter("is_ready")
    /\ IF ManualShouldSample(mode, sampling_active, data_ready)
       THEN /\ completions < MaxCompletions
            /\ Goto("manual_sample")
       ELSE Return(BoolStr(data_ready))
    /\ UNCHANGED <<cfgVars, ptrVars, cntVars, hwVars, envVars, status,
                   data_ready, sampling_active, fft_ready, magnitude, buf,
                   pf_buffer, completions>>

\* _adc_manual_sample_buffer: the loop writing current_buffer[0..N-1]
ManualSampleLoop ==
    /\ pc = "manual_sample"
    /\ buf' = [buf EXCEPT ![current_buffer] =
                  [frame |-> completions + 1, n |-> ADC_SAMPLING_FFT_SIZE]]
    /\ completions' = completions + 1
    /\ Goto("manual_finish")
    /\ UNCHANGED <<cfgVars, ptrVars, cntVars, hwVars, envVars, histVars,
                   status, data_ready, sampling_active, fft_ready, magnitude,
                   pf_buffer>>

\* measured rate of one loop, folded into the moving average
ManualRate(old, sample_time_us) ==
    IF sample_time_us > 0
    THEN LET current_rate ==
                 (ADC_SAMPLING_FFT_SIZE * 1000000) \div sample_time_us
         IN  IF old = 0 THEN current_rate
             ELSE (9 * old + current_rate) \div 10
    ELSE old

\* _adc_manual_sample_buffer after the loop: count, rate, swap, flag
ManualSampleFinish ==
    /\ pc = "manual_finish"
    /\ sample_count' = U32Add(sample_count, ADC_SAMPLING_FFT_SIZE)
    /\ \E sample_time_us \in SampleTimes :
        actual_sample_rate' = ManualRate(actual_sample_rate, sample_time_us)
    /\ LET s == _adc_swap_buffers(current_buffer, buffer_selector) IN
        /\ ready_buffer' = s.ready_buffer
        /\ buffer_selector' = s.buffer_selector
        /\ current_buffer' = s.current_buffer
    /\ data_ready' = TRUE
    /\ Goto("is_ready_return")
    /\ UNCHANGED <<cfgVars, hwVars, envVars, histVars, status,
                   sampling_active, buffer_overruns, fft_ready, magnitude,
                   buf, pf_buffer, completions>>

_adc_manual_sample_buffer ==
    \/ ManualSampleLoop
    \/ ManualSampleFinish

IsReadyReturn ==
    /\ pc = "is_ready_return"
    /\ Return(BoolStr(data_ready))
    /\ UNCHANGED <<cfgVars, ptrVars, cntVars, hwVars, envVars, histVars,
                   status, data_ready, sampling_active, fft_ready, magnitude,
                   buf, pf_buffer, completions>>

adc_sampling_is_ready ==
    \/ Call_is_ready
    \/ _adc_manual_sample_buffer
    \/ IsReadyReturn

\* ------------------------------------------------- adc_sampling_get_buffer
\* what adc_sampling_get_buffer returns when it runs without interruption
GetBufferResult(dr, rb) == IF ~dr THEN NULL ELSE rb

\* reads data_ready
Call_get_buffer ==
    /\ Enter("get_buffer")
    /\ IF ~data_ready THEN Return(NULL) ELSE Goto("get_buffer_ptr")
    /\ UNCHANGED <<cfgVars, ptrVars, cntVars, hwVars, envVars, status,
                   data_ready, sampling_active, fft_ready, magnitude, buf,
                   pf_buffer, completions>>

\* reads ready_buffer
GetBufferPointer ==
    /\ pc = "get_buffer_ptr"
    /\ Return(ready_buffer)
    /\ UNCHANGED <<cfgVars, ptrVars, cntVars, hwVars, envVars, histVars,
                   status, data_ready, sampling_active, fft_ready, magnitude,
                   buf, pf_buffer, completions>>

adc_sampling_get_buffer ==
    \/ Call_get_buffer
    \/ GetBufferPointer

\* ------------------------------------------------ adc_sampling_get_status
\* return g_unified_analyzer.status
adc_sampling_get_status == status

\* --------------------------------------- adc_sampling_complete_processing
Call_complete_processing ==
    /\ Enter("complete_processing")
    /\ IF data_ready THEN Goto("cp_flag") ELSE Return("void")
    /\ UNCHANGED <<cfgVars, ptrVars, cntVars, hwVars, envVars, status,
                   data_ready, sampling_active, fft_ready, magnitude, buf,
                   pf_buffer, completions>>

CompleteClearFlag ==
    /\ pc = "cp_flag"
    /\ data_ready' = FALSE
    /\ Goto("cp_fft")
    /\ UNCHANGED <<cfgVars, ptrVars, cntVars, hwVars, envVars, histVars,
                   status, sampling_active, fft_ready, magnitude, buf,
                   pf_buffer, completions>>

CompleteClearFftReady ==
    /\ pc = "cp_fft"
    /\ fft_ready' = FALSE
    /\ Goto("cp_ptr")
    /\ UNCHANGED <<cfgVars, ptrVars, cntVars, hwVars, envVars, histVars,
                   status, data_ready, sampling_active, magnitude, buf,
                   pf_buffer, completions>>

\* variant: the ready reference is left in place
Mutant_complete_keeps_pointer ==
    /\ pc = "cp_ptr"
    /\ Return("void")
    /\ UNCHANGED <<cfgVars, cntVars, hwVars, envVars, histVars, status,
                   data_ready, sampling_active, fft_ready, magnitude, buf,
                   pf_buffer, completions, ptrVars>>

CompleteClearPointer ==
    /\ pc = "cp_ptr"
    /\ ready_buffer' = NULL
    /\ Return("void")
    /\ UNCHANGED <<cfgVars, cntVars, hwVars, envVars, histVars, status,
                   data_ready, sampling_active, fft_ready, magnitude, buf,
                   pf_buffer, completions, current_buffer, buffer_selector>>

adc_sampling_complete_processing ==
    \/ Call_complete_processing
    \/ CompleteClearFlag
    \/ CompleteClearFftReady
    \/ CompleteClearPointer

\* ------------------------------------------------ adc_sampling_process_fft
\* buffer = adc_sampling_get_buffer(): reads data_ready
Call_process_fft ==
    /\ Enter("process_fft")
    /\ IF ~data_ready
       THEN /\ pf_buffer' = NULL
            /\ Return("false")
       ELSE /\ pf_buffer' = pf_buffer
            /\ Goto("pf_ptr")
    /\ UNCHANGED <<cfgVars, ptrVars, cntVars, hwVars, envVars, status,
                   data_ready, sampling_active, fft_ready, magnitude, buf,
                   completions>>

\* buffer = adc_sampling_get_buffer(): reads ready_buffer; NULL check
ProcessGetPointer ==
    /\ pc = "pf_ptr"
    /\ pf_buffer' = ready_buffer
    /\ IF ready_buffer = NULL THEN Return("false") ELSE Goto("pf_compute")
    /\ UNCHANGED <<cfgVars, ptrVars, cntVars, hwVars, envVars, histVars,
                   status, data_ready, sampling_active, fft_ready, magnitude,
                   buf, completions>>

\* window, transform and magnitude of the samples in buffer
ProcessCompute ==
    /\ pc = "pf_compute"
    /\ magnitude' = buf[pf_buffer].frame
    /\ Goto("pf_ready")
    /\ UNCHANGED <<cfgVars, ptrVars, cntVars, hwVars, envVars, histVars,
                   status, data_ready, sampling_active, fft_ready, buf,
                   pf_buffer, completions>>

ProcessSetReady ==
    /\ pc = "pf_ready"
    /\ fft_ready' = TRUE
    /\ Return("true")
    /\ UNCHANGED <<cfgVars, ptrVars, cntVars, hwVars, envVars, histVars,
                   status, data_ready, sampling_active, magnitude, buf,
                   pf_buffer, completions>>

adc_sampling_process_fft ==
    \/ Call_process_fft
    \/ ProcessGetPointer
    \/ ProcessCompute
    \/ ProcessSetReady

\* ---------------------------------------------- fft_realtime_unified.c
\* (1000000 / TARGET_FPS) with TARGET_FPS 30
TARGET_FRAME_TIME_US == 1000000 \div 30

\* fft_realtime_unified_init: adc_sampling_init(mode)
RunAdcInit ==
    /\ run_pc = "boot"
    /\ adc_sampling_init
    /\ run_pc' = "init_done"
    /\ UNCHANGED <<frame_count, error_count, published, frame_time_us,
                   sleep_time_us, iter>>

\* if (!adc_sampling_init(mode)) return false; else adc_sampling_start()
RunAdcStart ==
    /\ run_pc = "init_done"
    /\ pc \in {"idle", "init_failed"}
    /\ IF ret = "true"
       THEN /\ Call_start
            /\ run_pc' = "started"
       ELSE /\ run_pc' = "halt"
            /\ UNCHANGED acqVars
    /\ UNCHANGED <<frame_count, error_count, published, frame_time_us,
                   sleep_time_us, iter>>

\* if (!adc_sampling_start()) return false; frame_count = 0; error_count = 0
RunCountersInit ==
    /\ run_pc = "started"
    /\ pc = "idle"
    /\ IF ret = "true"
       THEN /\ frame_count' = U32Zero
            /\ error_count' = U32Zero
            /\ run_pc' = "loop_top"
       ELSE /\ run_pc' = "halt"
            /\ UNCHANGED <<frame_count, error_count>>
    /\ UNCHANGED <<acqVars, published, frame_time_us, sleep_time_us, iter>>

\* while (true) { frame_start = now; adc_sampling_is_ready() ...
RunPoll ==
    /\ run_pc = "loop_top"
    /\ Call_is_ready
    /\ run_pc' = "got_ready"
    /\ iter' = [frame_count |-> frame_count, error_count |-> error_count,
                published |-> published, ready |-> "none",
                processed |-> "none", released |-> FALSE]
    /\ UNCHANGED <<frame_count, error_count, published, frame_time_us,
                   sleep_time_us>>

\* variant: the frame is processed whatever is_ready returned
Mutant_process_always(r) == TRUE

\* the test of the loop: if (adc_sampling_is_ready())
ShouldProcess(r) == r = "true"

\* if (adc_sampling_is_ready()) { adc_sampling_process_fft() ... } else
\* fall through to the frame timing
RunBranchReady ==
    /\ run_pc = "got_ready"
    /\ pc = "idle"
    /\ iter' = [iter EXCEPT !.ready = ret]
    /\ IF ShouldProcess(ret)
       THEN /\ Call_process_fft
            /\ run_pc' = "got_process"
       ELSE /\ run_pc' = "pace"
            /\ UNCHANGED acqVars
    /\ UNCHANGED <<frame_count, error_count, published, frame_time_us,
                   sleep_time_us>>

\* variant: the spectrum is never handed out
Mutant_spectrum_never_ready == NULL

\* adc_sampling_get_magnitude_spectrum: NULL unless fft_ready
adc_sampling_get_magnitude_spectrum ==
    IF fft_ready THEN "magnitude_db" ELSE NULL

\* process_fft returned true: magnitude = get_magnitude_spectrum(); if not
\* NULL, update_display(magnitude) and frame_count++
RunPublish ==
    /\ run_pc = "got_process"
    /\ pc = "idle"
    /\ ret = "true"
    /\ iter' = [iter EXCEPT !.processed = "true"]
    /\ IF adc_sampling_get_magnitude_spectrum # NULL
       THEN /\ published' = magnitude
            /\ frame_count' = U32Add(frame_count, 1)
       ELSE UNCHANGED <<published, frame_count>>
    /\ run_pc' = "release"
    /\ UNCHANGED <<acqVars, error_count, frame_time_us, sleep_time_us>>

\* variant: the loop goes on to the frame timing without the release
Mutant_release_skipped ==
    /\ run_pc = "release"
    /\ pc = "idle"
    /\ run_pc' = "pace"
    /\ UNCHANGED <<acqVars, frame_count, error_count, published,
                   frame_time_us, sleep_time_us, iter>>

\* adc_sampling_complete_processing() after the publication
RunRelease ==
    /\ run_pc = "release"
    /\ Call_complete_processing
    /\ run_pc' = "pace"
    /\ iter' = [iter EXCEPT !.released = TRUE]
    /\ UNCHANGED <<frame_count, error_count, published, frame_time_us,
                   sleep_time_us>>

\* variant: a failed frame is not counted
Mutant_failure_not_counted ==
    /\ run_pc = "got_process"
    /\ pc = "idle"
    /\ ret = "false"
    /\ U32Val(error_count) < MaxErrors
    /\ iter' = [iter EXCEPT !.processed = "false"]
    /\ run_pc' = "pace"
    /\ UNCHANGED <<acqVars, frame_count, error_count, published,
                   frame_time_us, sleep_time_us>>

\* process_fft returned false: error_count++, no release
RunProcessFailed ==
    /\ run_pc = "got_process"
    /\ pc = "idle"
    /\ ret = "false"
    /\ U32Val(error_count) < MaxErrors
    /\ iter' = [iter EXCEPT !.processed = "false"]
    /\ error_count' = U32Add(error_count, 1)
    /\ run_pc' = "pace"
    /\ UNCHANGED <<acqVars, frame_count, published, frame_time_us,
                   sleep_time_us>>

\* variant: sleeps the whole period whatever the iteration took
Mutant_sleep_full_period(t) == TARGET_FRAME_TIME_US

\* if (frame_time_us < target) sleep_time_us = target - frame_time_us;
\* sleep_us only if sleep_time_us > 0; otherwise no sleep
SleepTime(t) ==
    IF t < TARGET_FRAME_TIME_US /\ TARGET_FRAME_TIME_US - t > 0
    THEN TARGET_FRAME_TIME_US - t
    ELSE 0

\* frame timing and frame rate control at the end of an iteration
RunPace ==
    /\ run_pc = "pace"
    /\ pc = "idle"
    /\ \E t \in FrameTimes :
        /\ frame_time_us' = t
        /\ sleep_time_us' = SleepTime(t)
    /\ run_pc' = "loop_top"
    /\ UNCHANGED <<acqVars, frame_count, error_count, published, iter>>

\* steps inside the API calls the coordinator makes
RunStartSteps ==
    /\ \/ ResetSampleCount("start_rc_count", "start_rc_overruns")
       \/ ResetOverruns("start_rc_overruns", "start_rc_rate")
       \/ ResetRate("start_rc_rate", "start_mode", "none")
       \/ StartMode
       \/ _adc_dma_start
       \/ StartSetStatus
       \/ StartSetActive
    /\ UNCHANGED runVars

RunIsReadySteps ==
    /\ \/ _adc_manual_sample_buffer
       \/ IsReadyReturn
    /\ UNCHANGED runVars

RunProcessSteps ==
    /\ \/ ProcessGetPointer
       \/ ProcessCompute
       \/ ProcessSetReady
    /\ UNCHANGED runVars

RunCompleteSteps ==
    /\ \/ CompleteClearFlag
       \/ CompleteClearFftReady
       \/ CompleteClearPointer
    /\ UNCHANGED runVars

\* the coordinator: fft_realtime_unified_init, then fft_realtime_unified_run,
\* with the DMA hardware and its completion handler running beside it
NextRun ==
    \/ RunAdcInit /\ UNCHANGED <<mathVars, lcdVars>>
    \/ RunAdcStart /\ UNCHANGED <<mathVars, lcdVars>>
    \/ RunCountersInit /\ UNCHANGED <<mathVars, lcdVars>>
    \/ RunPoll /\ UNCHANGED <<mathVars, lcdVars>>
    \/ RunBranchReady /\ UNCHANGED <<mathVars, lcdVars>>
    \/ RunPublish /\ UNCHANGED <<mathVars, lcdVars>>
    \/ RunRelease /\ UNCHANGED <<mathVars, lcdVars>>
    \/ RunProcessFailed /\ UNCHANGED <<mathVars, lcdVars>>
    \/ RunPace /\ UNCHANGED <<mathVars, lcdVars>>
    \/ RunStartSteps /\ UNCHANGED <<mathVars, lcdVars>>
    \/ RunIsReadySteps /\ UNCHANGED <<mathVars, lcdVars>>
    \/ RunProcessSteps /\ UNCHANGED <<mathVars, lcdVars>>
    \/ RunCompleteSteps /\ UNCHANGED <<mathVars, lcdVars>>
    \/ DmaTransferComplete /\ UNCHANGED <<runVars, mathVars, lcdVars>>
    \/ DmaTransferFault /\ UNCHANGED <<runVars, mathVars, lcdVars>>
    \/ _adc_dma_interrupt_handler /\ UNCHANGED <<runVars, mathVars, lcdVars>>

InitRun ==
    /\ AcqInit
    /\ RunInit("boot")
    /\ MathInit
    /\ LcdInit

SpecRun == InitRun /\ [][NextRun]_vars

\* ------------------------------------------------------------ specification
Next ==
    \/ adc_sampling_init /\ UNCHANGED <<runVars, mathVars, lcdVars>>
    \/ adc_sampling_start /\ UNCHANGED <<runVars, mathVars, lcdVars>>
    \/ adc_sampling_stop /\ UNCHANGED <<runVars, mathVars, lcdVars>>
    \/ adc_sampling_is_ready /\ UNCHANGED <<runVars, mathVars, lcdVars>>
    \/ adc_sampling_get_buffer /\ UNCHANGED <<runVars, mathVars, lcdVars>>
    \/ adc_sampling_complete_processing /\ UNCHANGED <<runVars, mathVars, lcdVars>>
    \/ adc_sampling_process_fft /\ UNCHANGED <<runVars, mathVars, lcdVars>>
    \/ adc_sampling_reset_counters /\ UNCHANGED <<runVars, mathVars, lcdVars>>
    \/ DmaTransferComplete /\ UNCHANGED <<runVars, mathVars, lcdVars>>
    \/ DmaTransferFault /\ UNCHANGED <<runVars, mathVars, lcdVars>>
    \/ _adc_dma_interrupt_handler /\ UNCHANGED <<runVars, mathVars, lcdVars>>

Spec == Init /\ [][Next]_vars


\* the main context of the coordinator: the statements of
\* fft_realtime_unified_init and fft_realtime_unified_run, in program order
MainLoop ==
    /\ \/ RunAdcInit \/ RunAdcStart \/ RunCountersInit \/ RunPoll
       \/ RunBranchReady \/ RunPublish \/ RunRelease \/ RunProcessFailed
       \/ RunPace \/ RunStartSteps \/ RunIsReadySteps \/ RunProcessSteps
       \/ RunCompleteSteps
    /\ UNCHANGED <<mathVars, lcdVars>>

\* the coordinator under fair scheduling: the main context keeps executing,
\* an armed transfer that does not fault finishes (the ADC runs freely and
\* paces the DMA), and a latched completion interrupt is taken
SpecRunFair ==
    /\ SpecRun
    /\ WF_vars(MainLoop)
    /\ WF_vars(DmaTransferComplete /\ UNCHANGED <<runVars, mathVars, lcdVars>>)
    /\ WF_vars(_adc_dma_interrupt_handler /\ UNCHANGED <<runVars, mathVars, lcdVars>>)

\* ------------------------------------------- window / calibration math
\* voltages handed to the power-level conversions
Voltages == {FltZero, Flt(5000, -14), Flt(1000, -13), Flt(1001, -13),
             Flt(5000, -13), Flt(9990, -13), Flt(1000, -12), Flt(1001, -12),
             Flt(2000, -12), Flt(1000, -9), Flt(1000, -6), Flt(2739, -4),
             Flt(2740, -4), Flt(2741, -4), Flt(1000, -3), Flt(3300, -3)}

\* ADC_REFERENCE_VOLTAGE (3.3f) / (1 << ADC_RESOLUTION_BITS), 12 bits
ADC_VOLTAGE_PER_BIT == FltDiv(Flt(3300, -3), FltNorm(2 ^ 12, 0))
DB_REFERENCE_VOLTAGE_0DBM == Flt(2740, -4)
\* (ADC_INPUT_IMPEDANCE + SIGNAL_SOURCE_IMPEDANCE) / ADC_INPUT_IMPEDANCE
\* with 100000 and 75 ohm
IMPEDANCE_CORRECTION_FACTOR ==
    FltDiv(FltNorm(100000 + 75, 0), FltNorm(100000, 0))
AMPLITUDE_RANGE_MIN_DB == -100
AMPLITUDE_RANGE_MAX_DB == 20

\* adc_sampling_process_fft: if (voltage_magnitude > 1e-10f) .. else -200.0f
FLOOR_UNIFIED == Flt(1000, -13)
SENTINEL_UNIFIED == -200000

\* variant: the ratio is taken upside down
Mutant_power_level_inverted(v) == Db20(FltDiv(DB_REFERENCE_VOLTAGE_0DBM, v))

\* 20.0f * log10f(v / DB_REFERENCE_VOLTAGE_0DBM), in thousandths of a dB
PowerLevel(v) == Db20(FltDiv(v, DB_REFERENCE_VOLTAGE_0DBM))

\* variant: the logarithm is taken whatever the voltage
Mutant_floor_admits_all(v) == TRUE

\* the guard of the logarithm in adc_sampling_process_fft
AboveFloor(v) == FltGt(v, FLOOR_UNIFIED)

\* the conversion of adc_sampling_process_fft: log tells whether log10f was
\* evaluated, finite whether its argument was positive if it was
ConvertUnified(v) ==
    LET above == AboveFloor(v) IN
    [path |-> "unified", v |-> v, above |-> FltGt(v, FLOOR_UNIFIED),
     log |-> above,
     finite |-> ~above \/ FltDiv(v, DB_REFERENCE_VOLTAGE_0DBM).m > 0,
     db |-> IF above THEN PowerLevel(v) ELSE SENTINEL_UNIFIED]

\* the conversion of fft_realtime_analysis, after the impedance correction
ConvertLegacy(v) ==
    LET corrected == FltMul(v, IMPEDANCE_CORRECTION_FACTOR)
        above == FltGt(corrected, Flt(1000, -12))
    IN
    [path |-> "legacy", v |-> v, above |-> above, log |-> above,
     finite |-> ~above \/ FltDiv(corrected, DB_REFERENCE_VOLTAGE_0DBM).m > 0,
     db |-> IF above THEN PowerLevel(corrected) ELSE -120000]

\* one power-level conversion of a bin voltage, by either routine
MathConvert ==
    /\ \E v \in Voltages :
        \E c \in {ConvertUnified(v), ConvertLegacy(v)} :
            /\ conv' = c
            /\ prev_conv' = conv
    /\ win' = NoWin
    /\ frame' = NoFrame
    /\ UNCHANGED <<acqVars, runVars, lcdVars>>

\* window selectors looked up: the seven of config_settings.h and one beyond
WindowSelectors == 0..7

FFT_WINDOW_TYPE == 0

\* WINDOW_COHERENT_GAIN_*
WINDOW_COHERENT_GAIN ==
    [RECTANGLE |-> Flt(1000, -3), HAMMING |-> Flt(5400, -4),
     HANN |-> Flt(5000, -4), BLACKMAN |-> Flt(4200, -4),
     BLACKMANHARRIS |-> Flt(3587, -4), KAISER_BESSEL |-> Flt(4000, -4),
     FLATTOP |-> Flt(2156, -4)]

\* WINDOW_AMPLITUDE_CORRECTION_* == (1.0f / gain)
WINDOW_AMPLITUDE_CORRECTION ==
    [RECTANGLE |-> FltDiv(FltOne, Flt(1000, -3)),
     HAMMING |-> FltDiv(FltOne, Flt(5400, -4)),
     HANN |-> FltDiv(FltOne, Flt(5000, -4)),
     BLACKMAN |-> FltDiv(FltOne, Flt(4200, -4)),
     BLACKMANHARRIS |-> FltDiv(FltOne, Flt(3587, -4)),
     KAISER_BESSEL |-> FltDiv(FltOne, Flt(4000, -4)),
     FLATTOP |-> FltDiv(FltOne, Flt(2156, -4))]

\* the table of fft_realtime_unified_get_window_correction, by selector
window_corrections ==
    <<"RECTANGLE", "HAMMING", "HANN", "BLACKMAN", "BLACKMANHARRIS",
      "KAISER_BESSEL", "FLATTOP">>

\* the factor returned for a selector and the shape it is the factor of
fft_realtime_unified_get_window_correction(sel) ==
    IF sel >= 0 /\ sel < 7
    THEN [shape |-> window_corrections[sel + 1],
          factor |-> WINDOW_AMPLITUDE_CORRECTION[window_corrections[sel + 1]]]
    ELSE [shape |-> "RECTANGLE", factor |-> FltOne]

\* the switch of _adc_apply_window_function: the shape applied for a
\* selector; for the sums of cosines, the constant term of the sum, which is
\* the mean of the window over the buffer (its coherent gain)
WindowApplied(sel) ==
    CASE sel = 0 -> [shape |-> "RECTANGLE", cosine_sum |-> TRUE,
                     constant_term |-> Flt(1000, -3)]
      [] sel = 1 -> [shape |-> "HAMMING", cosine_sum |-> TRUE,
                     constant_term |-> Flt(5400, -4)]
      [] sel = 2 -> [shape |-> "HANN", cosine_sum |-> TRUE,
                     constant_term |-> Flt(5000, -4)]
      [] sel = 3 -> [shape |-> "BLACKMAN", cosine_sum |-> TRUE,
                     constant_term |-> Flt(4200, -4)]
      [] sel = 4 -> [shape |-> "BLACKMANHARRIS", cosine_sum |-> TRUE,
                     constant_term |-> Flt(3587, -4)]
      [] sel = 5 -> [shape |-> "KAISER_BESSEL", cosine_sum |-> FALSE,
                     constant_term |-> FltZero]
      [] sel = 6 -> [shape |-> "FLATTOP", cosine_sum |-> TRUE,
                     constant_term |-> Flt(1000, -3)]
      [] OTHER -> [shape |-> "RECTANGLE", cosine_sum |-> TRUE,
                   constant_term |-> Flt(1000, -3)]

\* one window selector: what _adc_apply_window_function applies for it and
\* what fft_realtime_unified_get_window_correction returns for it
MathWindow ==
    /\ \E sel \in WindowSelectors :
        LET c == fft_realtime_unified_get_window_correction(sel)
            w == WindowApplied(sel)
        IN win' = [sel |-> sel,
                   gain |-> WINDOW_COHERENT_GAIN[c.shape],
                   correction |-> c.factor,
                   applied |-> w.shape,
                   corrected_for |-> c.shape,
                   cosine_sum |-> w.cosine_sum,
                   constant_term |-> w.constant_term]
    /\ conv' = NoConv
    /\ prev_conv' = NoConv
    /\ frame' = NoFrame
    /\ UNCHANGED <<acqVars, runVars, lcdVars>>

\* the transform is explored at four points, where the twiddle factors are
\* 1, -i, -1, i and the transform is exact on integers
DftSize == 4
\* ADC readings a buffer is made of (12 bit)
AdcLevels == {0, 1, 2048, 4095}

RECURSIVE SumTo(_, _)
SumTo(x, n) == IF n = 0 THEN 0 ELSE x[n] + SumTo(x, n - 1)

\* variant: only half of the mean is removed
Mutant_dc_half_removed(x) == SumTo(x, DftSize) \div 2

\* dc_offset = (sum of the buffer) / size, carried multiplied by the size
ScaledDcOffset(x) == SumTo(x, DftSize)

\* _adc_apply_window_function with FFT_WINDOW_TYPE 0: (sample - dc_offset)
\* * 1.0f, carried multiplied by the size so that the mean is an integer
WindowedScaled(x) ==
    [i \in 1..DftSize |-> DftSize * x[i] - ScaledDcOffset(x)]

\* exp(-2 pi i j / 4) for j = 0..3
Twiddle == [r |-> <<1, 0, -1, 0>>, i |-> <<0, -1, 0, 1>>]

RECURSIVE DftSum(_, _, _, _)
DftSum(w, tw, k, n) ==
    IF n = 0 THEN 0
    ELSE w[n] * tw[((k * (n - 1)) % DftSize) + 1] + DftSum(w, tw, k, n - 1)

\* kiss_fft: bin k of the transform of the real sequence w
kiss_fft(w, k) ==
    [r |-> DftSum(w, Twiddle.r, k, DftSize),
     i |-> DftSum(w, Twiddle.i, k, DftSize)]

\* magnitude /= ADC_SAMPLING_FFT_SIZE, for every bin
NormalizeMagnitude(bin, mag) == FltDiv(mag, FltNorm(DftSize, 0))

\* one bin of the magnitude loop of adc_sampling_process_fft
ProcessBin(x, bin) ==
    LET out == kiss_fft(WindowedScaled(x), bin)
        mag == FltDiv(sqrtf(out.r * out.r + out.i * out.i),
                      FltNorm(DftSize, 0))
        norm == NormalizeMagnitude(bin, mag)
        voltage == FltMul(norm, ADC_VOLTAGE_PER_BIT)
    IN [magnitude |-> mag, norm |-> norm, voltage |-> voltage,
        db |-> ConvertUnified(voltage).db]

\* bins kept by the magnitude loop: 0 .. size/2 - 1
SpectrumBins == 0..(DftSize \div 2 - 1)

\* variant: the display takes the value as it is
Mutant_display_no_clamp(db) == db

\* fft_streaming_display_update_spectrum: if (db_value < -100.0f) db_value
\* = -100.0f; if (db_value > 20.0f) db_value = 20.0f
DisplayClamp(db) ==
    IF db < -100000 THEN -100000
    ELSE IF db > 20000 THEN 20000
    ELSE db

\* bins the display draws: from 1, with a frequency (bin * SAMPLING_RATE_HZ
\* / size, 128000 Hz) inside FREQUENCY_RANGE_MIN .. FREQUENCY_RANGE_MAX
\* (1000 .. 50000 Hz)
DisplayedBins ==
    {bin \in SpectrumBins :
        /\ bin >= 1
        /\ (bin * 128000) \div DftSize >= 1000
        /\ (bin * 128000) \div DftSize <= 50000}

\* one buffer through adc_sampling_process_fft, update_display and the
\* display's update_spectrum
ProcessFrame(x) ==
    LET bins == [bin \in SpectrumBins |-> ProcessBin(x, bin)]
        \* fft_realtime_unified_update_display: magnitude_spectrum[bin] +
        \* 20.0f * log10f(window_correction)
        c == fft_realtime_unified_get_window_correction(FFT_WINDOW_TYPE)
        corrected == [bin \in SpectrumBins |-> bins[bin].db + Db20(c.factor)]
    IN [valid |-> TRUE, samples |-> x, bins |-> bins,
        corrected |-> corrected,
        shown |-> [bin \in DisplayedBins |-> DisplayClamp(corrected[bin])]]

MathProcessFrame ==
    /\ \E x \in [1..DftSize -> AdcLevels] : frame' = ProcessFrame(x)
    /\ conv' = NoConv
    /\ prev_conv' = NoConv
    /\ win' = NoWin
    /\ UNCHANGED <<acqVars, runVars, lcdVars>>

\* the pure functions of the pipeline, applied to inputs of bounded sets
NextMath ==
    \/ MathConvert
    \/ MathWindow
    \/ MathProcessFrame

InitMath ==
    /\ AcqInit
    /\ dma_channel_free
    /\ heap_ok
    /\ RunInit("off")
    /\ MathInit
    /\ LcdInit

SpecMath == InitMath /\ [][NextMath]_vars

\* ===================================================================
\* Properties
\* ===================================================================

StartPcs == {"start_rc_count", "start_rc_overruns", "start_rc_rate",
             "start_mode", "dma_configure", "dma_start", "dma_adc_run",
             "start_status", "start_active"}

StopPcs == {"stop_adc_run", "stop_abort", "stop_status", "stop_active",
            "stop_ready", "stop_rate"}

\* a step of the completion handler: only the handler clears the latch
HandlerStep == ints0 /\ ~ints0'

\* C1: a completion handled while a completed buffer is still unread adds
\* exactly 1 to buffer_overruns and get_buffer then returns the buffer just
\* completed (the former write target, holding the newest fill), not the
\* discarded one; a completion handled with nothing pending leaves
\* buffer_overruns unchanged.
C1_OverrunCountedNewestReturned ==
    [][HandlerStep =>
        IF data_ready
        THEN /\ buffer_overruns' = U32Add(buffer_overruns, 1)
             /\ GetBufferResult(data_ready', ready_buffer') = current_buffer
             /\ GetBufferResult(data_ready', ready_buffer') # ready_buffer
             /\ buf'[ready_buffer'].frame = completions'
        ELSE buffer_overruns' = buffer_overruns]_vars

C1_Witness ==
    /\ mode = ADC_MODE_DMA
    /\ buffer_overruns = U32(0, 1)
    /\ data_ready
    /\ ready_buffer \in Buffers
    /\ buf[ready_buffer].frame = completions
    /\ completions >= 2

\* C2: once adc_sampling_init has run, current_buffer is buffer_ping or
\* buffer_pong and ready_buffer is NULL or the other buffer.
C2_WriteTargetNeverReady ==
    pc # "uninit" =>
        /\ current_buffer \in Buffers
        /\ ready_buffer \in {NULL, Other(current_buffer)}

C2_Witness ==
    /\ completions >= 2
    /\ data_ready
    /\ current_buffer = buffer_ping
    /\ ready_buffer = buffer_pong

\* C3: whenever data_ready is true, ready_buffer is not NULL.
C3_ReadyFlagImpliesPointer ==
    data_ready => ready_buffer # NULL

\* C4: in DMA mode, from the return of adc_sampling_stop until the next
\* adc_sampling_start (status Idle, outside both calls) data_ready is false
\* and no DMA transfer is armed.
C4_StopDetachesTransfer ==
    (/\ mode = ADC_MODE_DMA
     /\ status = ADC_STATUS_IDLE
     /\ pc \notin (StartPcs \cup StopPcs \cup {"uninit"}))
    => (~data_ready /\ ~dma_busy)

\* C5: after a transfer fault in DMA mode the status is Error and the
\* transfer is not re-armed, until adc_sampling_stop is called.
C5_FaultSetsError ==
    (dma_fault /\ status # ADC_STATUS_IDLE)
    => (status = ADC_STATUS_ERROR /\ ~dma_busy)

\* C6: adc_sampling_init in DMA mode with no free DMA channel, or with the
\* transform configuration not allocatable, returns false with status Idle,
\* sampling inactive, nothing armed and the ADC not running.
C6_InitFailsCleanly ==
    (/\ call = "init"
     /\ mode = ADC_MODE_DMA
     /\ (~dma_channel_free \/ ~heap_ok))
    => /\ pc = "init_failed"
       /\ ret = "false"
       /\ status = ADC_STATUS_IDLE
       /\ ~sampling_active
       /\ ~dma_busy
       /\ ~adc_running

\* C7: adc_sampling_start called while Sampling, and adc_sampling_stop called
\* while Idle, return true and leave the acquisition state as it was.
C7_RedundantCallsAreNoOps ==
    (/\ pc = "idle"
     /\ ~hw_in_call
     /\ \/ (call = "start" /\ snap.status = ADC_STATUS_SAMPLING)
        \/ (call = "stop" /\ snap.status = ADC_STATUS_IDLE))
    => (ret = "true" /\ AcqState = snap)

C7_Witness ==
    /\ pc = "idle"
    /\ ~hw_in_call
    /\ call = "start"
    /\ snap.status = ADC_STATUS_SAMPLING
    /\ ret = "true"
    /\ dma_busy
    /\ data_ready
    /\ sample_count # U32Zero

\* C8: in manual mode adc_sampling_is_ready samples exactly when sampling is
\* active and no data is pending: it then fills the N samples of the write
\* target, adds N to sample_count, makes that buffer ready, flips the write
\* target and returns true; otherwise it returns the flag and changes nothing.
C8_ManualIsReadySamples ==
    (pc = "idle" /\ call = "is_ready" /\ mode = ADC_MODE_MANUAL) =>
        IF snap.sampling_active /\ ~snap.data_ready
        THEN /\ ret = "true"
             /\ data_ready
             /\ sample_count = U32Add(snap.sample_count, ADC_SAMPLING_FFT_SIZE)
             /\ ready_buffer = snap.current_buffer
             /\ current_buffer = Other(snap.current_buffer)
             /\ completions = snap.completions + 1
             /\ buf[ready_buffer] =
                    [frame |-> completions, n |-> ADC_SAMPLING_FFT_SIZE]
        ELSE /\ ret = BoolStr(snap.data_ready)
             /\ AcqState = snap

C8_Witness ==
    /\ pc = "idle"
    /\ call = "is_ready"
    /\ mode = ADC_MODE_MANUAL
    /\ snap.sampling_active
    /\ ~snap.data_ready
    /\ ret = "true"
    /\ completions >= 2

\* C9: in DMA mode adc_sampling_is_ready never enters the sample loop,
\* changes no acquisition state and returns data_ready.
C9_DmaIsReadyOnlyReads ==
    /\ mode = ADC_MODE_DMA =>
          pc \notin {"manual_sample", "manual_finish", "is_ready_return"}
    /\ (pc = "idle" /\ call = "is_ready" /\ mode = ADC_MODE_DMA
        /\ ~hw_in_call)
       => (ret = BoolStr(snap.data_ready) /\ AcqState = snap)

C9_Witness ==
    /\ pc = "idle"
    /\ call = "is_ready"
    /\ mode = ADC_MODE_DMA
    /\ ~hw_in_call
    /\ sampling_active
    /\ dma_busy
    /\ ~data_ready
    /\ ret = "false"

\* C10: when adc_sampling_complete_processing returns and no completion
\* happened meanwhile, data_ready is false, the ready reference is cleared
\* (get_buffer returns NULL), the write target and the counters are as at
\* entry, and if nothing was ready at entry nothing has changed.
C10_ReleaseClearsFlagAndPointer ==
    (pc = "idle" /\ call = "complete_processing" /\ ~hw_in_call) =>
        /\ ~data_ready
        /\ GetBufferResult(data_ready, ready_buffer) = NULL
        /\ snap.data_ready => ready_buffer = NULL
        /\ current_buffer = snap.current_buffer
        /\ buffer_selector = snap.buffer_selector
        /\ sample_count = snap.sample_count
        /\ buffer_overruns = snap.buffer_overruns
        /\ actual_sample_rate = snap.actual_sample_rate
        /\ ~snap.data_ready => AcqState = snap

C10_Witness ==
    /\ pc = "idle"
    /\ call = "complete_processing"
    /\ ~hw_in_call
    /\ snap.data_ready
    /\ snap.ready_buffer \in Buffers
    /\ ready_buffer = NULL
    /\ sample_count # U32Zero


\* positions of the coordinator inside the while (true) loop
LoopPcs == {"loop_top", "got_ready", "got_process", "release", "pace"}

\* C11: an iteration of the run loop that found data ready ends in exactly
\* one of two ways: Process succeeded and frame_count grew by 1 with
\* error_count unchanged, or Process failed and error_count grew by 1 with
\* frame_count unchanged; either way the loop goes on to pacing and never
\* leaves the loop.
C11_ProcessOutcomeCounted ==
    /\ [](run_pc = "pace" /\ iter.ready = "true" =>
            \/ /\ iter.processed = "true"
               /\ frame_count = U32Add(iter.frame_count, 1)
               /\ error_count = iter.error_count
            \/ /\ iter.processed = "false"
               /\ error_count = U32Add(iter.error_count, 1)
               /\ frame_count = iter.frame_count)
    /\ [][/\ run_pc \in LoopPcs => run_pc' \in LoopPcs
          /\ run_pc = "got_process" /\ run_pc' # run_pc =>
                run_pc' \in {"release", "pace"}
          /\ run_pc = "release" /\ run_pc' # run_pc => run_pc' = "pace"]_vars

\* a failed iteration after at least one published frame
C11_Witness ==
    /\ run_pc = "pace"
    /\ iter.ready = "true"
    /\ iter.processed = "false"
    /\ U32Val(error_count) = 1
    /\ U32Val(frame_count) >= 1

\* C12: in DMA mode an iteration whose poll found nothing ready runs neither
\* Process nor Publish: frame_count, error_count and the published spectrum
\* are those of the iteration's top, the main loop left the acquisition state
\* as the poll found it, and the iteration still passes through pacing.
C12_IdleIterationOnlyPaces ==
    /\ [](run_pc = "pace" /\ mode = ADC_MODE_DMA /\ iter.ready = "false" =>
            /\ frame_count = iter.frame_count
            /\ error_count = iter.error_count
            /\ published = iter.published
            /\ iter.processed = "none"
            /\ call = "is_ready"
            /\ (~hw_in_call => AcqState = snap))
    /\ [][/\ run_pc = "got_ready" /\ ret = "false" /\ run_pc' # run_pc =>
                run_pc' = "pace" /\ pc' = "idle"
          /\ run_pc \in LoopPcs /\ run_pc' = "loop_top" /\ run_pc # run_pc' =>
                run_pc = "pace"]_vars

\* an idle iteration between two frames of a running DMA acquisition
C12_Witness ==
    /\ run_pc = "pace"
    /\ mode = ADC_MODE_DMA
    /\ iter.ready = "false"
    /\ sampling_active
    /\ ~hw_in_call
    /\ U32Val(frame_count) >= 1

\* C13: the pacing step sleeps TARGET_FRAME_TIME_US minus the measured time of
\* the iteration when that time is below the target and does not sleep
\* otherwise, so measured time plus sleep is never below the target; the
\* target is the same constant in every iteration.
C13_PacingFillsFramePeriod ==
    [][run_pc = "pace" /\ run_pc' = "loop_top" =>
        /\ sleep_time_us' = IF frame_time_us' < TARGET_FRAME_TIME_US
                            THEN TARGET_FRAME_TIME_US - frame_time_us'
                            ELSE 0
        /\ frame_time_us' + sleep_time_us' >= TARGET_FRAME_TIME_US
        /\ TARGET_FRAME_TIME_US = 33333]_vars

\* an iteration one microsecond short of the period, after a failed frame
C13_Witness ==
    /\ run_pc = "loop_top"
    /\ frame_time_us = TARGET_FRAME_TIME_US - 1
    /\ sleep_time_us = 1
    /\ U32Val(error_count) >= 1


C15_SentinelBelowNanovolt ==
    conv.path # "none" /\ FltGt(Flt(1000, -12), conv.v) =>
        /\ ~conv.log
        /\ conv.db = IF conv.path = "unified" THEN -200000 ELSE -120000

\* C15 (amended): each conversion has its own floor and sentinel: at or
\* below 1e-10 V adc_sampling_process_fft returns -200 dB, at or below 1e-9 V
\* (after the impedance correction) fft_realtime_analysis returns -120 dB;
\* there the logarithm is not evaluated, above the floor it is evaluated on
\* a positive argument, so no conversion is non-finite.
C15_SentinelBelowOwnFloor ==
    /\ conv.path = "unified" =>
        IF FltGt(conv.v, Flt(1000, -13))
        THEN conv.log /\ conv.finite /\ conv.db > -200000
        ELSE ~conv.log /\ conv.finite /\ conv.db = -200000
    /\ conv.path = "legacy" =>
        IF FltGt(FltMul(conv.v, IMPEDANCE_CORRECTION_FACTOR), Flt(1000, -12))
        THEN conv.log /\ conv.finite /\ conv.db > -200000
        ELSE ~conv.log /\ conv.finite /\ conv.db = -120000

\* a zero voltage converted by adc_sampling_process_fft
C15_Witness ==
    /\ conv.path = "unified"
    /\ conv.v = FltZero
    /\ ~conv.log
    /\ conv.db = SENTINEL_UNIFIED

\* C16: adc_sampling_process_fft divides the magnitude of bin 0 by the
\* transform size and the magnitude of every other bin by half the size.
C16_HalfSizeNormalization ==
    frame.valid =>
        \A bin \in SpectrumBins :
            frame.bins[bin].norm =
                FltDiv(frame.bins[bin].magnitude,
                       FltNorm(IF bin = 0 THEN DftSize ELSE DftSize \div 2, 0))

\* all samples of the buffer are equal
DcOnly(x) == \A i \in DOMAIN x : x[i] = x[1]

C19_MonotonicZeroAtReference ==
    /\ /\ conv.path # "none"
       /\ prev_conv.path = conv.path
       /\ prev_conv.above
       /\ conv.above
       /\ ~FltGt(prev_conv.v, conv.v)
       => prev_conv.db <= conv.db
    /\ conv.path = "unified" /\ conv.v = Flt(2740, -4) =>
        conv.db >= -1 /\ conv.db <= 1

\* the reference voltage converted after a voltage just below it
C19_Witness ==
    /\ prev_conv.path = "unified"
    /\ prev_conv.v = Flt(2739, -4)
    /\ prev_conv.db < 0
    /\ conv.path = "unified"
    /\ conv.v = DB_REFERENCE_VOLTAGE_0DBM
    /\ conv.db = 0

C21_SwapPeriodTwo ==
    current_buffer # NULL =>
        LET once == _adc_swap_buffers(current_buffer, buffer_selector)
            twice == _adc_swap_buffers(once.current_buffer,
                                       once.buffer_selector)
        IN /\ once.current_buffer # current_buffer
           /\ once.current_buffer \in Buffers
           /\ twice.current_buffer = current_buffer
           /\ twice.buffer_selector = buffer_selector
           /\ twice.ready_buffer = once.current_buffer

\* two completions have been handled and the selector is back on ping
C21_Witness ==
    /\ completions >= 2
    /\ current_buffer = buffer_ping
    /\ ready_buffer = buffer_pong
    /\ ~buffer_selector

\* ---------------------------------------------------------------- C22
\* C22 (as stated): in an iteration where Process succeeds the consumed
\* buffer is released at the completion of Process, before the spectrum is
\* published: once the spectrum of the iteration is published, the release
\* has been made.
C22_ReleasedBeforePublish ==
    [](run_pc \in {"release", "pace"} /\ iter.processed = "true" =>
            iter.released)

\* C22 (amended): in an iteration where Process succeeds the spectrum is
\* published first, with the buffer not yet released and the processed
\* spectrum still available; the release follows the publication and is
\* finished before pacing; an iteration where Process fails or nothing was
\* ready makes no release.
C22_ReleasedAfterPublish ==
    /\ [](run_pc = "pace" =>
            iter.released = (iter.processed = "true"))
    /\ [](run_pc = "pace" /\ pc = "idle" /\ iter.released =>
            call = "complete_processing")
    /\ [][/\ iter'.processed = "true" /\ iter.processed # "true" =>
                /\ ~iter.released /\ ~iter'.released
                /\ fft_ready
                /\ frame_count' = U32Add(frame_count, 1)
                /\ run_pc' = "release"
          /\ iter'.released /\ ~iter.released =>
                /\ iter.processed = "true"
                /\ run_pc = "release"
                /\ frame_count = U32Add(iter.frame_count, 1)
                /\ frame_count' = frame_count]_vars

\* a successful iteration has published and released, and paces
C22_Witness ==
    /\ run_pc = "pace"
    /\ pc = "idle"
    /\ iter.processed = "true"
    /\ iter.released
    /\ ~fft_ready
    /\ U32Val(frame_count) >= 2

\* ---------------------------------------------------------------- C23
\* the main loop is between two calls and no completion waits for its handler
Quiescent ==
    /\ run_pc \in {"loop_top", "got_ready", "pace"}
    /\ pc = "idle"
    /\ ~ints0

\* C23: at every quiescent point of the run loop the completed buffers are
\* accounted for: their number since the counters were reset at the start is
\* the number of buffers consumed by a successful Process (one per counted
\* frame) plus buffer_overruns plus the pending buffer (data_ready, 0 or 1),
\* whatever the interleaving of the handler with Process and the release.
C23_CompletionsAccounted ==
    Quiescent =>
        completions = U32Val(frame_count) + U32Val(buffer_overruns)
                        + (IF data_ready THEN 1 ELSE 0)

\* all three terms are present: a frame was consumed, a completion arrived
\* on a pending buffer, and a buffer is pending
C23_Witness ==
    /\ Quiescent
    /\ mode = ADC_MODE_DMA
    /\ U32Val(frame_count) = 1
    /\ U32Val(buffer_overruns) = 1
    /\ data_ready
    /\ completions = 3
    /\ call = "complete_processing"
    /\ hw_in_call

\* ---------------------------------------------------------------- C24
\* C24: wherever the main context can call it (between two other calls),
\* adc_sampling_get_status reports ADC_STATUS_DATA_READY whenever data_ready
\* is set, and reports ADC_STATUS_SAMPLING only while the acquisition is
\* active with no completed buffer pending.
C24_StatusFollowsDataReady ==
    pc = "idle" =>
        /\ data_ready => adc_sampling_get_status = ADC_STATUS_DATA_READY
        /\ adc_sampling_get_status = ADC_STATUS_SAMPLING =>
                sampling_active /\ ~data_ready

\* ---------------------------------------------------------------- C25
\* C25: in DMA mode, while adc_sampling_process_fft holds the buffer it
\* obtained and has not finished reading it, that buffer is neither
\* current_buffer nor the destination of an armed transfer.
C25_ReadBufferNotWritten ==
    mode = ADC_MODE_DMA /\ call = "process_fft" /\ pc = "pf_compute" =>
        /\ current_buffer # pf_buffer
        /\ ~(dma_busy /\ dma_dest = pf_buffer)

\* ---------------------------------------------------------------- C26
\* C26: when the release of the run loop returns and the buffer that was
\* ready at its entry was a newer one than the buffer the preceding
\* process_fft consumed (no completion arriving during the release itself),
\* the newer buffer is still ready: data_ready is set and get_buffer returns
\* it.
C26_ReleaseKeepsNewerBuffer ==
    (/\ run_pc = "pace" /\ iter.released
     /\ pc = "idle" /\ call = "complete_processing" /\ ~hw_in_call
     /\ snap.data_ready /\ snap.fft_ready
     /\ snap.ready_buffer \in Buffers
     /\ buf[snap.ready_buffer].frame # magnitude) =>
        /\ data_ready
        /\ GetBufferResult(data_ready, ready_buffer) = snap.ready_buffer

\* ---------------------------------------------------------------- C27
\* the main loop of a DMA acquisition is between two iterations' calls, with
\* frame_count at n, and a buffer is pending or one more transfer can still
\* complete within the exploration
LoopWaiting(n) ==
    /\ mode = ADC_MODE_DMA
    /\ run_pc \in {"loop_top", "got_ready", "pace"}
    /\ pc = "idle"
    /\ U32Val(frame_count) = n
    /\ U32Val(error_count) < MaxErrors
    /\ \/ completions < MaxCompletions
       \/ ints0
       \/ data_ready /\ ready_buffer # NULL

C28_ManualNeverOverruns ==
    /\ [](mode = ADC_MODE_MANUAL => buffer_overruns = U32Zero)
    /\ [][mode = ADC_MODE_MANUAL /\ buf' # buf =>
            /\ ~data_ready
            /\ \A b \in Buffers : buf'[b] # buf[b] => b = current_buffer
            /\ ~(data_ready' /\ ready_buffer' = current_buffer')]_vars

\* three buffers sampled and released in manual mode, the ping buffer reused
C28_Witness ==
    /\ mode = ADC_MODE_MANUAL
    /\ completions = 3
    /\ data_ready
    /\ ready_buffer = buffer_ping
    /\ buf[buffer_ping].frame = 3
    /\ buf[buffer_pong].frame = 2
    /\ buffer_overruns = U32Zero

\* ---------------------------------------------------------------- C29
\* a completed buffer is counted: the handler runs, or the manual sampling
\* pass finishes
CompletionCounted == HandlerStep \/ (pc = "manual_finish" /\ pc' # pc)

\* C29: sample_count is N times the number of completions counted since it
\* was last set to zero, modulo 2^32, with N = ADC_SAMPLING_FFT_SIZE = 1024:
\* it is zero after init, every counted completion adds N modulo 2^32,
\* nothing else changes it except the reset of adc_sampling_start and
\* adc_sampling_reset_counters, which stores zero; so it is always a multiple
\* of N, and the addition wraps from 2^32 - N to zero.
C29_SampleCountMultipleOfN ==
    /\ [](/\ sample_count \in U32Set
          /\ sample_count.lo % ADC_SAMPLING_FFT_SIZE = 0
          /\ pc = "uninit" => sample_count = U32Zero)
    /\ [][/\ CompletionCounted =>
                sample_count' = U32Add(sample_count, ADC_SAMPLING_FFT_SIZE)
          /\ sample_count' # sample_count =>
                \/ CompletionCounted
                \/ /\ sample_count' = U32Zero
                   /\ call \in {"start", "reset_counters"}
                   /\ pc \in {"rc_count", "start_rc_count"}]_vars
    /\ [](ADC_SAMPLING_FFT_SIZE = 1024 /\ LIMB % ADC_SAMPLING_FFT_SIZE = 0
          /\ U32Add(U32(LIMB - 1, LIMB - ADC_SAMPLING_FFT_SIZE),
                    ADC_SAMPLING_FFT_SIZE) = U32Zero
          /\ U32Add(U32(0, LIMB - ADC_SAMPLING_FFT_SIZE),
                    ADC_SAMPLING_FFT_SIZE) = U32(1, 0))

\* a completion counted after a reset that followed earlier completions
C29_Witness ==
    /\ completions = 3
    /\ U32Val(sample_count) = ADC_SAMPLING_FFT_SIZE
    /\ call = "reset_counters"
    /\ pc = "idle"
    /\ hw_in_call
    /\ ~ints0

\* ---------------------------------------------------------------- C30
\* C30: after any sequence of partial_update_set_pixel calls followed by
\* partial_update_flush, every pixel changed since the previous flush lies in
\* a dirty region that flush sent to the panel, also when more separate
\* areas were touched than the regions array holds; region_count never
\* exceeds the size of the array.
C30_FlushSendsEveryChangedPixel ==
    /\ Len(regions) <= MaxRegions
    /\ lcd_op = "flush" => lost = {}
====
